---------------------------- MODULE Spec2Model ----------------------------
(***************************************************************************)
(* Atlas Scientific pH sensor -> statsd firmware (Particle).               *)
(*                                                                         *)
(* Two variants of the sketch exist: src/unnamed/part_000 ("release":      *)
(* deep sleep between cycles, DEBUG_ENABLED not defined) and               *)
(* src/atlas-statsd.ino ("debug": serial prints, 15 s delay between        *)
(* cycles).  Both are modelled; the variable `variant' says which one      *)
(* runs.                                                                   *)
(*                                                                         *)
(* Text (String / char[]) is a sequence of character codes; a byte is an   *)
(* integer 0..255.  Numbers (the double returned by atof, the float        *)
(* last_reading) are fixed-point integers counting units of                *)
(* 10^-FracDigits; the binary rounding of float/double is not modelled.    *)
(***************************************************************************)
EXTENDS Integers, Sequences, FiniteSets, TLC

(***************************************************************************)
(* Bounds of the model                                                     *)
(***************************************************************************)
\* fractional decimal digits kept by the fixed-point numbers
FracDigits == 3
\* number of loop() executions explored
MaxCycles == 3
\* number of loop() executions explored under the fairness condition
LiveCycles == 2
\* bytes found behind an unterminated char array before a NUL is met
MaxGarbage == 1
\* largest response_size tried when chip_command is exercised on its own
MaxResponse == 3

Unit == 10 ^ FracDigits

(***************************************************************************)
(* Program constants                                                       *)
(***************************************************************************)
udp_local_port == 8888
remoteIP == <<159, 203, 144, 95>>
\* float delta_to_publish = 0.05
delta_to_publish == (5 * Unit) \div 100

ChipTypes == {"ph", "ec", "orp", "dissolved_oxygen"}
ChipModes == {"i2c", "serial"}
PhAddress == 99                     \* 0x63

CmdR     == <<82>>                          \* "R"
CmdSleep == <<83, 76, 69, 69, 80>>          \* "SLEEP"
CmdLedOn == <<76, 44, 49>>                  \* "L,1"
CmdLedOff == <<76, 44, 48>>                 \* "L,0"

\* "Request Failed"
MsgFailed == <<82, 101, 113, 117, 101, 115, 116, 32, 70, 97, 105, 108, 101, 100>>
\* "Pending - the request is still being processed. Ensure that you have
\*  waited the minimum time to guarantee a repsonse"
MsgPending == <<80, 101, 110, 100, 105, 110, 103, 32, 45, 32, 116, 104, 101, 32, 114, 101, 113, 117, 101, 115, 116, 32, 105, 115, 32, 115, 116, 105, 108, 108, 32, 98, 101, 105, 110, 103, 32, 112, 114, 111, 99, 101, 115, 115, 101, 100, 46, 32, 69, 110, 115, 117, 114, 101, 32, 116, 104, 97, 116, 32, 121, 111, 117, 32, 104, 97, 118, 101, 32, 119, 97, 105, 116, 101, 100, 32, 116, 104, 101, 32, 109, 105, 110, 105, 109, 117, 109, 32, 116, 105, 109, 101, 32, 116, 111, 32, 103, 117, 97, 114, 97, 110, 116, 101, 101, 32, 97, 32, 114, 101, 112, 115, 111, 110, 115, 101>>
\* "No Data - there is no pending request, so there is no data to return
\*  from the circuit"
MsgNoData == <<78, 111, 32, 68, 97, 116, 97, 32, 45, 32, 116, 104, 101, 114, 101, 32, 105, 115, 32, 110, 111, 32, 112, 101, 110, 100, 105, 110, 103, 32, 114, 101, 113, 117, 101, 115, 116, 44, 32, 115, 111, 32, 116, 104, 101, 114, 101, 32, 105, 115, 32, 110, 111, 32, 100, 97, 116, 97, 32, 116, 111, 32, 114, 101, 116, 117, 114, 110, 32, 102, 114, 111, 109, 32, 116, 104, 101, 32, 99, 105, 114, 99, 117, 105, 116>>

StatsdPrefix == <<97, 113, 112, 110, 99, 115, 46>>      \* "aqpncs."
StatsdColon  == <<58>>                                  \* ":"
StatsdGauge  == <<124, 103>>                            \* "|g"

(***************************************************************************)
(* Environment: what the peripheral and the cloud can answer               *)
(***************************************************************************)
\* status bytes the chip can put first on the bus
StatusCodes == {0, 1, 2, 3, 254, 255}
\* texts the sensor answers with (it sends the text, then NUL bytes):
\* "7.00" "7.02" "7.05" "7.06" "7.10" "14.000" ""
Payloads == { <<55, 46, 48, 48>>, <<55, 46, 48, 50>>, <<55, 46, 48, 53>>,
              <<55, 46, 48, 54>>, <<55, 46, 49, 48>>,
              <<49, 52, 46, 48, 48, 48>>, <<>> }
\* non-NUL bytes that may lie behind the char array: '7', 'A'
GarbageBytes == {55, 65}
\* ids Particle.deviceID() may return: "e0", "3b"
DeviceIds == { <<101, 48>>, <<51, 98>> }

(***************************************************************************)
(* Text and numbers                                                        *)
(***************************************************************************)
\* the n-fold repetition of the sequence s
RECURSIVE Repeat(_, _)
Repeat(s, n) == IF n <= 0 THEN <<>> ELSE s \o Repeat(s, n - 1)

\* all sequences over S of length 0..n
SeqsUpTo(S, n) == UNION { [1..k -> S] : k \in 0..n }

\* index of the first NUL in bytes, 0 when there is none (strlen's scan)
RECURSIVE FirstNul(_, _)
FirstNul(bytes, i) ==
    IF i > Len(bytes) THEN 0
    ELSE IF bytes[i] = 0 THEN i
    ELSE FirstNul(bytes, i + 1)

\* a conversion that keeps every stored byte, NUL or not
StringOfUntruncated(reading, garbage) == reading

\* String(const char *): the bytes up to the first NUL.  `reading' holds
\* the bytes the code stored; the array has no terminator of its own, so
\* when none of the stored bytes is NUL the scan runs on into `garbage',
\* the non-NUL bytes that happen to follow in memory.
StringOf(reading, garbage) ==
    LET z == FirstNul(reading, 1)
    IN  IF z > 0 THEN SubSeq(reading, 1, z - 1) ELSE reading \o garbage

IsDigit(c) == c >= 48 /\ c <= 57
IsSpace(c) == c \in {9, 10, 11, 12, 13, 32}

RECURSIVE SkipSpace(_, _)
SkipSpace(s, i) ==
    IF i <= Len(s) /\ IsSpace(s[i]) THEN SkipSpace(s, i + 1) ELSE i

\* digits before the decimal point, from position i: [pos, val]
RECURSIVE ParseInt(_, _, _)
ParseInt(s, i, acc) ==
    IF i <= Len(s) /\ IsDigit(s[i])
    THEN ParseInt(s, i + 1, acc * 10 + (s[i] - 48))
    ELSE [pos |-> i, val |-> acc]

\* digits after the decimal point, from position i, the k-th of them
\* weighing 10^-k; digits finer than the fixed-point unit are dropped
RECURSIVE ParseFrac(_, _, _)
ParseFrac(s, i, k) ==
    IF i <= Len(s) /\ IsDigit(s[i])
    THEN (IF k <= FracDigits THEN (s[i] - 48) * 10 ^ (FracDigits - k) ELSE 0)
         + ParseFrac(s, i + 1, k + 1)
    ELSE 0

\* atof: optional white space, optional sign, digits, optional '.' and
\* digits; parsing stops at the first other character and text without a
\* leading number yields 0.  (Exponents, hex, inf and nan do not occur in
\* the texts of this model.)
atof(s) ==
    LET i    == SkipSpace(s, 1)
        sign == i <= Len(s) /\ s[i] \in {43, 45}
        neg  == i <= Len(s) /\ s[i] = 45
        ip   == ParseInt(s, IF sign THEN i + 1 ELSE i, 0)
        fp   == IF ip.pos <= Len(s) /\ s[ip.pos] = 46
                THEN ParseFrac(s, ip.pos + 1, 1) ELSE 0
        v    == ip.val * Unit + fp
    IN  IF neg THEN 0 - v ELSE v

fabs(x) == IF x < 0 THEN 0 - x ELSE x

(***************************************************************************)
(* I/O events: everything the firmware does on the I2C bus, the UDP        *)
(* socket and the power controller, in program order.                      *)
(***************************************************************************)
Ev(op, to, data, n) == [op |-> op, to |-> to, data |-> data, n |-> n]

WireWrite(address, command)    == Ev("write", address, command, 0)
Delay(ms)                      == Ev("delay", 0, <<>>, ms)
WireRequestFrom(address, size) == Ev("requestFrom", address, <<>>, size)
WireRead(byte)                 == Ev("read", 0, <<>>, byte)
UdpPacket(payload)             == Ev("udp", udp_local_port, payload, 0)
SystemSleep(seconds)           == Ev("System.sleep", 0, <<>>, seconds)
ParticleDeviceID(id)           == Ev("Particle.deviceID", 0, id, 0)

\* the bytes the peripheral puts on the bus after the status byte when
\* `size' bytes are requested: its text, then NULs
SensorBytes(payload, size) ==
    [i \in 1..(size - 1) |-> IF i <= Len(payload) THEN payload[i] ELSE 0]

(***************************************************************************)
(* chip_command                                                            *)
(***************************************************************************)
\* a switch whose unknown codes fall into the last case
ResponseDataDefaultNoData(response_code, reading, garbage) ==
    CASE response_code = 1   -> StringOf(reading, garbage)
      [] response_code = 2   -> MsgFailed
      [] response_code = 254 -> MsgPending
      [] OTHER               -> MsgNoData

\* the switch on the response code
ResponseData(response_code, reading, garbage) ==
    CASE response_code = 1   -> StringOf(reading, garbage)
      [] response_code = 2   -> MsgFailed
      [] response_code = 254 -> MsgPending
      [] response_code = 255 -> MsgNoData
      [] OTHER               -> <<>>

\* the Wire.read() calls of the switch: case 1 pulls response_size - 1
\* bytes off the bus, the other cases read nothing more
DataReads(response_code, reading) ==
    IF response_code = 1
    THEN [i \in 1..Len(reading) |-> WireRead(reading[i])]
    ELSE <<>>

\* a chip_command without the early return for response_size == 0
chip_commandAlwaysReads(command, chip_address, read_delay, response_size, sensor, garbage) ==
    LET transmit == << WireWrite(chip_address, command), Delay(read_delay) >>
        reading  == SensorBytes(sensor.payload, response_size)
    IN  [io  |-> transmit
                 \o << WireRequestFrom(chip_address, response_size),
                       WireRead(sensor.code) >>
                 \o DataReads(sensor.code, reading),
         ret |-> ResponseData(sensor.code, reading, garbage)]

\* chip_command(command, address, read_delay, response_size) against a
\* peripheral answering `sensor' = [code, payload]; yields the events of
\* the call and the returned String
chip_command(command, chip_address, read_delay, response_size, sensor, garbage) ==
    LET transmit == << WireWrite(chip_address, command), Delay(read_delay) >>
        reading  == SensorBytes(sensor.payload, response_size)
    IN  IF response_size = 0
        THEN [io |-> transmit, ret |-> <<>>]
        ELSE [io  |-> transmit
                      \o << WireRequestFrom(chip_address, response_size),
                            WireRead(sensor.code) >>
                      \o DataReads(sensor.code, reading),
              ret |-> ResponseData(sensor.code, reading, garbage)]

(***************************************************************************)
(* Chip controller and publisher                                           *)
(***************************************************************************)
\* struct atlas_chip
AtlasChip(type, mode, address, data) ==
    [type |-> type, mode |-> mode, address |-> address, data |-> data]

\* struct atlas_chip ph_chip = { .type = ph, .mode = i2c, .address = 0x63 }
PhChipInit == AtlasChip("ph", "i2c", PhAddress, <<>>)

\* a get_reading that asks every chip for the pH chip's 7 bytes
ResponseSizeOfPh(type) == 7

\* get_reading: bytes requested per chip type
ResponseSizeOf(type) ==
    CASE type = "ph"               -> 7
      [] type = "ec"               -> 32
      [] type = "orp"              -> 8
      [] type = "dissolved_oxygen" -> 14

\* get_reading(&chip): the events of the call and the chip afterwards
get_reading(chip, sensor, garbage) ==
    LET r == chip_command(CmdR, chip.address, 1000,
                          ResponseSizeOf(chip.type), sensor, garbage)
    IN  [io |-> r.io, chip |-> [chip EXCEPT !.data = r.ret]]

\* a chip_wake without the dissolved oxygen case
required_readingsAlways4(type) == 4

\* chip_wake: readings thrown away after a wake-up
required_readings(type) == IF type = "dissolved_oxygen" THEN 16 ELSE 4

\* chip_wake(chip): the events of the for loop
chip_wake(chip, sensor) ==
    Repeat(chip_command(CmdR, chip.address, 1000, 0, sensor, <<>>).io,
           required_readings(chip.type))

\* a chip_sleep that expects a one-byte response
chip_sleepReads(chip, sensor) ==
    chip_command(CmdSleep, chip.address, 300, 1, sensor, <<>>).io

\* chip_sleep(chip): the events of the call
chip_sleep(chip, sensor) ==
    chip_command(CmdSleep, chip.address, 300, 0, sensor, <<>>).io

\* a publish_data that leaves the device id out of the metric name
publish_dataNoId(data, id) == StatsdPrefix \o StatsdColon \o data \o StatsdGauge

\* publish_data(data): the payload written into the packet
publish_data(data, id) == StatsdPrefix \o id \o StatsdColon \o data \o StatsdGauge

\* the datagram handed to the socket
Datagram(payload) == [ip |-> remoteIP, port |-> udp_local_port, payload |-> payload]

\* a threshold test that also fires on a change of exactly the delta
ThresholdExceededGe(data, last) == fabs(atof(data) - last) >= delta_to_publish

\* a threshold test without fabs: only a rise of the reading counts
ThresholdExceededSigned(data, last) == atof(data) - last > delta_to_publish

\* loop: fabs(atof(ph_chip.data) - last_reading) > delta_to_publish
ThresholdExceeded(data, last) == fabs(atof(data) - last) > delta_to_publish

\* setup: the LED commands written to the chip
SetupLed(v) ==
    IF v = "release"
    THEN << WireWrite(PhAddress, CmdLedOff) >>
    ELSE << WireWrite(PhAddress, CmdLedOn), Delay(300),
            WireWrite(PhAddress, CmdLedOff), Delay(300),
            WireWrite(PhAddress, CmdLedOn), Delay(300) >>

(***************************************************************************)
(* State                                                                   *)
(***************************************************************************)
VARIABLES
    variant,        \* "release" (part_000) or "debug" (atlas-statsd.ino)
    pc,             \* position of the firmware
    ph_chip,        \* struct atlas_chip ph_chip
    last_reading,   \* retained float last_reading
    device_id,      \* retained String device_id
    sensor,         \* what the peripheral answers to a read: [code, payload]
    io,             \* I/O events since the device last started setup/loop
    udp,            \* datagrams sent since the first boot
    cycles,         \* number of the current loop() execution
    call,           \* last function applied on its own: [fn, args, ret]
    particle_id     \* the id of this device, as Particle.deviceID() gives it

vars == << variant, pc, ph_chip, last_reading, device_id, sensor, io, udp,
           cycles, call, particle_id >>

\* answers of the peripheral: a status byte and, on success, a text
SensorAnswers ==
    { [code |-> 1, payload |-> p] : p \in Payloads }
    \cup { [code |-> c, payload |-> <<>>] : c \in StatusCodes \ {1} }

Garbage == SeqsUpTo(GarbageBytes, MaxGarbage)

NoCall == [fn |-> "none", args |-> <<>>, ret |-> <<>>]

\* first-ever boot: retained memory holds zero / empty text
Init ==
    /\ variant \in {"release", "debug"}
    /\ pc = "setup"
    /\ ph_chip = PhChipInit
    /\ last_reading = 0
    /\ device_id = <<>>
    /\ sensor \in SensorAnswers
    /\ io = <<>>
    /\ udp = <<>>
    /\ cycles = 1
    /\ call = NoCall
    /\ particle_id \in DeviceIds

(***************************************************************************)
(* setup() and loop()                                                      *)
(***************************************************************************)
Setup ==
    /\ pc = "setup"
    /\ IF device_id = <<>>
       THEN /\ device_id' = particle_id
            /\ io' = io \o << ParticleDeviceID(particle_id) >> \o SetupLed(variant)
       ELSE /\ device_id' = device_id
            /\ io' = io \o SetupLed(variant)
    /\ pc' = "chip_wake"
    /\ UNCHANGED << variant, ph_chip, last_reading, sensor, udp, cycles, call, particle_id >>

LoopChipWake ==
    /\ pc = "chip_wake"
    /\ io' = io \o chip_wake(ph_chip, sensor)
    /\ pc' = "get_reading"
    /\ UNCHANGED << variant, ph_chip, last_reading, device_id, sensor, udp,
                    cycles, call, particle_id >>

\* a measurement that blocks for as long as the chip answers "pending"
LoopGetReadingBlocksWhilePending ==
    /\ pc = "get_reading"
    /\ sensor.code # 254
    /\ \E g \in Garbage :
         LET r == get_reading(ph_chip, sensor, g)
         IN  /\ ph_chip' = r.chip
             /\ io' = io \o r.io
    /\ pc' = "decide"
    /\ UNCHANGED << variant, last_reading, device_id, sensor, udp, cycles, call, particle_id >>

LoopGetReading ==
    /\ pc = "get_reading"
    /\ \E g \in Garbage :
         LET r == get_reading(ph_chip, sensor, g)
         IN  /\ ph_chip' = r.chip
             /\ io' = io \o r.io
    /\ pc' = "decide"
    /\ UNCHANGED << variant, last_reading, device_id, sensor, udp, cycles, call, particle_id >>

\* a loop that puts the chip to sleep before it publishes
LoopDecideSleepFirst ==
    /\ pc = "decide"
    /\ IF ThresholdExceeded(ph_chip.data, last_reading)
       THEN /\ last_reading' = atof(ph_chip.data)
            /\ udp' = Append(udp, Datagram(publish_data(ph_chip.data, device_id)))
            /\ io' = io \o chip_sleep(ph_chip, sensor)
                        \o << UdpPacket(publish_data(ph_chip.data, device_id)) >>
       ELSE /\ io' = io \o chip_sleep(ph_chip, sensor)
            /\ UNCHANGED << last_reading, udp >>
    /\ pc' = "idle"
    /\ UNCHANGED << variant, ph_chip, device_id, sensor, cycles, call, particle_id >>

\* a loop that measures again when the chip reported no success
LoopDecideRetry ==
    /\ pc = "decide"
    /\ IF ph_chip.data \in {MsgFailed, MsgPending, MsgNoData, <<>>}
       THEN /\ pc' = "get_reading"
            /\ UNCHANGED << last_reading, udp, io >>
       ELSE /\ pc' = "chip_sleep"
            /\ IF ThresholdExceeded(ph_chip.data, last_reading)
               THEN /\ last_reading' = atof(ph_chip.data)
                    /\ udp' = Append(udp, Datagram(publish_data(ph_chip.data, device_id)))
                    /\ io' = Append(io, UdpPacket(publish_data(ph_chip.data, device_id)))
               ELSE UNCHANGED << last_reading, udp, io >>
    /\ UNCHANGED << variant, ph_chip, device_id, sensor, cycles, call, particle_id >>

\* a loop that keeps the latest measurement, published or not
LoopDecideTrackMeasurement ==
    /\ pc = "decide"
    /\ last_reading' = atof(ph_chip.data)
    /\ IF ThresholdExceeded(ph_chip.data, last_reading)
       THEN /\ udp' = Append(udp, Datagram(publish_data(ph_chip.data, device_id)))
            /\ io' = Append(io, UdpPacket(publish_data(ph_chip.data, device_id)))
       ELSE UNCHANGED << udp, io >>
    /\ pc' = "chip_sleep"
    /\ UNCHANGED << variant, ph_chip, device_id, sensor, cycles, call, particle_id >>

LoopDecide ==
    /\ pc = "decide"
    /\ IF ThresholdExceeded(ph_chip.data, last_reading)
       THEN /\ last_reading' = atof(ph_chip.data)
            /\ udp' = Append(udp, Datagram(publish_data(ph_chip.data, device_id)))
            /\ io' = Append(io, UdpPacket(publish_data(ph_chip.data, device_id)))
       ELSE UNCHANGED << last_reading, udp, io >>
    /\ pc' = "chip_sleep"
    /\ UNCHANGED << variant, ph_chip, device_id, sensor, cycles, call, particle_id >>

LoopChipSleep ==
    /\ pc = "chip_sleep"
    /\ io' = io \o chip_sleep(ph_chip, sensor)
    /\ pc' = "idle"
    /\ UNCHANGED << variant, ph_chip, last_reading, device_id, sensor, udp,
                    cycles, call, particle_id >>

\* part_000: System.sleep(SLEEP_MODE_DEEP, 900, SLEEP_NETWORK_STANDBY)
DeepSleep ==
    /\ variant = "release"
    /\ pc = "idle"
    /\ io' = Append(io, SystemSleep(900))
    /\ pc' = "asleep"
    /\ UNCHANGED << variant, ph_chip, last_reading, device_id, sensor, udp,
                    cycles, call, particle_id >>

\* what a retained String holds after a deep sleep.  Only the String object
\* lies in retained memory; its characters are on the heap, which is not
\* retained, and the object is a global with a constructor (the note at
\* last_reading: Strings are not preserved).  The text is either still
\* there or empty.
RetainedString(s) == {s, <<>>}

\* the device comes out of deep sleep: it restarts, ordinary memory is
\* initialised again and only the retained variables keep their value
WakeUp ==
    /\ pc = "asleep"
    /\ cycles < MaxCycles
    /\ cycles' = cycles + 1
    /\ ph_chip' = PhChipInit
    /\ device_id' \in RetainedString(device_id)
    /\ sensor' \in SensorAnswers
    /\ io' = <<>>
    /\ pc' = "setup"
    /\ UNCHANGED << variant, last_reading, udp, call, particle_id >>

\* atlas-statsd.ino: delay(15000), then loop() returns
LoopDelay ==
    /\ variant = "debug"
    /\ pc = "idle"
    /\ io' = Append(io, Delay(15000))
    /\ pc' = "returned"
    /\ UNCHANGED << variant, ph_chip, last_reading, device_id, sensor, udp,
                    cycles, call, particle_id >>

\* the runtime calls loop() again
LoopAgain ==
    /\ pc = "returned"
    /\ cycles < MaxCycles
    /\ cycles' = cycles + 1
    /\ sensor' \in SensorAnswers
    /\ io' = <<>>
    /\ pc' = "chip_wake"
    /\ UNCHANGED << variant, ph_chip, last_reading, device_id, udp, call, particle_id >>

Next ==
    \/ Setup
    \/ LoopChipWake
    \/ LoopGetReading
    \/ LoopDecide
    \/ LoopChipSleep
    \/ DeepSleep
    \/ WakeUp
    \/ LoopDelay
    \/ LoopAgain

Spec == Init /\ [][Next]_vars

\* Every call of setup and loop is blocking code with fixed delays and
\* returns; the runtime calls loop() again and the 900 s timer ends the
\* deep sleep: a step that can be taken is eventually taken.
\* The fair behaviours are explored for LiveCycles executions of loop().
NextLive == Next /\ cycles' <= LiveCycles

SpecLive == Init /\ [][NextLive]_vars /\ WF_vars(NextLive)

(***************************************************************************)
(* The functions on their own: chip_command, chip_wake, get_reading and    *)
(* chip_sleep applied to arguments the main program never passes (any      *)
(* chip type, any response size, any bytes on the bus); one call per run.  *)
(***************************************************************************)
\* byte values tried on the bus: NUL, '.', '7'
BusBytes == {0, 46, 55}
Addresses == {PhAddress, 100}
Commands == {CmdR, CmdSleep, CmdLedOn}
ReadDelays == {0, 300, 1000}
\* chips of every type, with and without an earlier reading ("7.00")
Chips == { AtlasChip(t, m, a, d) : t \in ChipTypes, m \in ChipModes,
                                   a \in Addresses,
                                   d \in { <<>>, <<55, 46, 48, 48>> } }

InitFn ==
    /\ variant \in {"release", "debug"}
    /\ pc = "call"
    /\ ph_chip = PhChipInit
    /\ last_reading = 0
    /\ device_id = <<>>
    /\ sensor \in SensorAnswers
    /\ io = <<>>
    /\ udp = <<>>
    /\ cycles = 1
    /\ call = NoCall
    /\ particle_id \in DeviceIds

CallChipCommand ==
    /\ pc = "call"
    /\ \E command \in Commands, address \in Addresses, read_delay \in ReadDelays,
          response_size \in 0..MaxResponse, code \in StatusCodes, g \in Garbage :
         \E bytes \in [1..(response_size - 1) -> BusBytes] :
           LET sn == [code |-> code, payload |-> bytes]
               r  == chip_command(command, address, read_delay, response_size, sn, g)
           IN  /\ sensor' = sn
               /\ io' = r.io
               /\ call' = [fn   |-> "chip_command",
                           args |-> [command |-> command, address |-> address,
                                     read_delay |-> read_delay,
                                     response_size |-> response_size],
                           ret  |-> r.ret]
    /\ pc' = "done"
    /\ UNCHANGED << variant, ph_chip, last_reading, device_id, udp, cycles, particle_id >>

CallChipWake ==
    /\ pc = "call"
    /\ \E chip \in Chips :
         /\ ph_chip' = chip
         /\ io' = chip_wake(chip, sensor)
         /\ call' = [fn |-> "chip_wake", args |-> [chip |-> chip], ret |-> <<>>]
    /\ pc' = "done"
    /\ UNCHANGED << variant, last_reading, device_id, sensor, udp, cycles, particle_id >>

CallGetReading ==
    /\ pc = "call"
    /\ \E chip \in Chips, sn \in SensorAnswers, g \in Garbage :
         LET r == get_reading(chip, sn, g)
         IN  /\ sensor' = sn
             /\ ph_chip' = r.chip
             /\ io' = r.io
             /\ call' = [fn |-> "get_reading", args |-> [chip |-> chip],
                         ret |-> <<>>]
    /\ pc' = "done"
    /\ UNCHANGED << variant, last_reading, device_id, udp, cycles, particle_id >>

CallChipSleep ==
    /\ pc = "call"
    /\ \E chip \in Chips :
         /\ ph_chip' = chip
         /\ io' = chip_sleep(chip, sensor)
         /\ call' = [fn |-> "chip_sleep", args |-> [chip |-> chip], ret |-> <<>>]
    /\ pc' = "done"
    /\ UNCHANGED << variant, last_reading, device_id, sensor, udp, cycles, particle_id >>

\* get_reading(&chip) a second time, the peripheral answering as before
CallGetReadingAgain ==
    /\ pc = "done"
    /\ call.fn = "get_reading"
    /\ \E g \in Garbage :
         LET r == get_reading(ph_chip, sensor, g)
         IN  /\ ph_chip' = r.chip
             /\ io' = r.io
             /\ call' = [fn |-> "get_reading_twice",
                         args |-> [chip |-> call.args.chip, first |-> ph_chip.data],
                         ret |-> <<>>]
    /\ pc' = "done2"
    /\ UNCHANGED << variant, last_reading, device_id, sensor, udp, cycles, particle_id >>

NextFn ==
    \/ CallChipCommand
    \/ CallChipWake
    \/ CallGetReading
    \/ CallGetReadingAgain
    \/ CallChipSleep

SpecFn == InitFn /\ [][NextFn]_vars

(***************************************************************************)
(* Properties                                                              *)
(***************************************************************************)
\* the value field of a statsd line "<name>:<value>|g"
DatagramValue(payload) ==
    LET colon == CHOOSE i \in 1..Len(payload) :
                    /\ payload[i] = 58
                    /\ \A j \in 1..(i - 1) : payload[j] # 58
    IN  SubSeq(payload, colon + 1, Len(payload) - 2)

\* positions of the events of io that satisfy P
Where(P(_)) == { i \in 1..Len(io) : P(io[i]) }

\* C1: threshold law.  The decision step of loop publishes exactly when
\* |atof(measured text) - last_reading| > 0.05 (20 * difference > 1), it
\* changes last_reading exactly when it publishes, the new last_reading is
\* atof(measured text), and no other step publishes or writes last_reading.
C1_ThresholdLaw ==
    [][ LET d         == fabs(atof(ph_chip.data) - last_reading)
            published == Len(udp') = Len(udp) + 1
        IN  IF pc = "decide"
            THEN /\ published <=> 20 * d > Unit
                 /\ ~published => udp' = udp
                 /\ published <=> last_reading' # last_reading
                 /\ published => last_reading' = atof(ph_chip.data)
            ELSE udp' = udp /\ last_reading' = last_reading ]_vars

\* a cycle decided on a difference of exactly 0.05 from an earlier published
\* reading and did not publish
C1_Witness ==
    /\ pc = "chip_sleep"
    /\ Len(udp) = 1
    /\ cycles = 2
    /\ 20 * fabs(atof(ph_chip.data) - last_reading) = Unit

\* C2: last_reading is the numeric value carried by the most recently
\* published datagram, or the initial zero when none was published.
C2_LastPublished ==
    last_reading = IF udp = <<>> THEN 0
                   ELSE atof(DatagramValue(udp[Len(udp)].payload))

\* after a deep sleep and restart, a measurement that differs from the
\* published baseline was taken and not published
C2_Witness ==
    /\ variant = "release"
    /\ cycles >= 2
    /\ pc = "asleep"
    /\ udp # <<>>
    /\ ~ \E i \in 1..Len(io) : io[i].op = "udp"
    /\ atof(ph_chip.data) # last_reading

\* event classes of the I/O log
ReadWrites    == Where(LAMBDA e : e.op = "write" /\ e.data = CmdR)
SleepWrites   == Where(LAMBDA e : e.op = "write" /\ e.data = CmdSleep)
AllWrites     == Where(LAMBDA e : e.op = "write")
Requests      == Where(LAMBDA e : e.op = "requestFrom")
Reads         == Where(LAMBDA e : e.op = "read")
SettleDelays  == Where(LAMBDA e : e.op = "delay")
Packets       == Where(LAMBDA e : e.op = "udp")
\* the step that ends a cycle: deep sleep in part_000, the 15 s delay that
\* stands in its place in atlas-statsd.ino
PowerDowns    == Where(LAMBDA e : IF variant = "release"
                                  THEN e.op = "System.sleep"
                                  ELSE e.op = "delay" /\ e.n = 15000)
Before(A, B)  == \A a \in A, b \in B : a < b

\* C3: order of a cycle.  In the I/O log of a cycle the 4 purge "R"
\* commands precede the measuring "R" command (the one followed by the
\* read request); the read request and all reads precede the decision
\* (they are complete when the firmware decides); a datagram, if any,
\* follows the reads and precedes "SLEEP"; power-down follows "SLEEP" and
\* is the last event; there is one read request, at most one datagram, one
\* "SLEEP", one power-down; the cycle counter advances only from the
\* powered-down position with the log closed by the power-down.
C3_OrderInv ==
    /\ Cardinality(Requests) <= 1 /\ Cardinality(Packets) <= 1
    /\ Cardinality(SleepWrites) <= 1 /\ Cardinality(PowerDowns) <= 1
    /\ \A q \in Requests :
         /\ q - 2 \in ReadWrites
         /\ Cardinality(ReadWrites \ {q - 2}) = 4
         /\ Before(ReadWrites \ {q - 2}, {q - 2})
         /\ Reads = (q + 1)..(q + Cardinality(Reads))
    /\ Before(Requests \cup Reads, Packets)
    /\ Before(Requests \cup Reads \cup Packets, SleepWrites)
    /\ Before(SleepWrites, PowerDowns)
    /\ pc \in {"setup", "chip_wake"} =>
         ReadWrites = {} /\ Requests = {} /\ Packets = {} /\ SleepWrites = {}
    /\ pc = "get_reading" =>
         /\ Cardinality(ReadWrites) = 4
         /\ Requests = {} /\ Packets = {} /\ SleepWrites = {}
    /\ pc = "decide" =>
         Cardinality(Requests) = 1 /\ Packets = {} /\ SleepWrites = {}
    /\ pc = "chip_sleep" => Cardinality(Requests) = 1 /\ SleepWrites = {}
    /\ pc = "idle" =>
         Cardinality(Requests) = 1 /\ Cardinality(SleepWrites) = 1 /\ PowerDowns = {}
    /\ pc \in {"asleep", "returned"} =>
         /\ Cardinality(Requests) = 1 /\ Cardinality(SleepWrites) = 1
         /\ PowerDowns = {Len(io)}

C3_Order ==
    /\ []C3_OrderInv
    /\ [][ cycles' # cycles =>
             /\ cycles' = cycles + 1
             /\ pc \in {"asleep", "returned"}
             /\ PowerDowns = {Len(io)}
             /\ io' = <<>> ]_vars

\* a second cycle, started after a power-down, published and reached
\* power-down itself
C3_Witness ==
    /\ cycles = 2
    /\ pc = "asleep"
    /\ Cardinality(Packets) = 1
    /\ Cardinality(ReadWrites) = 5

\* C9: chip sleep.  Once the decision is taken and before the device powers
\* down, the log of the cycle holds exactly one "SLEEP" write to the chip,
\* followed by a 300 ms delay and by no read request or read; before the
\* decision it holds none.  This does not depend on the status read or on
\* a datagram having been sent.
C9_OneSleep ==
    /\ pc \in {"setup", "chip_wake", "get_reading", "decide", "chip_sleep"} =>
         SleepWrites = {}
    /\ pc \in {"idle", "asleep", "returned"} =>
         /\ Cardinality(SleepWrites) = 1
         /\ \A s \in SleepWrites :
              /\ io[s].to = ph_chip.address
              /\ s + 1 <= Len(io) /\ io[s + 1] = Delay(300)
              /\ Before(Requests \cup Reads, {s})
              /\ Before({s}, PowerDowns)
              /\ Len(io) <= s + 2

\* the chip was put to sleep and the device powered down in a cycle whose
\* measurement failed and that published nothing
C9_Witness ==
    /\ pc = "asleep"
    /\ sensor.code = 255
    /\ Packets = {}
    /\ Cardinality(SleepWrites) = 1

\* the fixed text chip_command returns for a status other than 1
StatusMessage(code) ==
    IF code = 2 THEN MsgFailed
    ELSE IF code = 254 THEN MsgPending
    ELSE IF code = 255 THEN MsgNoData
    ELSE <<>>

\* C10: a non-success measurement counts as a reading of 0.  When the
\* status read was not 1 the measured text is the fixed message (or
\* empty), its numeric value is 0, and the decision step publishes exactly
\* when |0 - last_reading| > 0.05; then last_reading becomes 0 and the
\* datagram carries the message text.  The step always continues with the
\* chip sleep, and the cycle holds a single read request.
C10_FailureIsZero ==
    [][ (pc = "decide" /\ sensor.code # 1) =>
          LET published == Len(udp') = Len(udp) + 1
          IN  /\ ph_chip.data = StatusMessage(sensor.code)
              /\ atof(ph_chip.data) = 0
              /\ published <=> 20 * fabs(0 - last_reading) > Unit
              /\ published =>
                   /\ last_reading' = 0
                   /\ DatagramValue(udp'[Len(udp')].payload) = StatusMessage(sensor.code)
              /\ ~published => last_reading' = last_reading /\ udp' = udp
              /\ pc' = "chip_sleep"
              /\ Cardinality(Requests) = 1 ]_vars

\* after a published reading, a "No Data" answer was published as value and
\* reset the baseline to 0
C10_Witness ==
    /\ Len(udp) = 2
    /\ atof(DatagramValue(udp[1].payload)) # 0
    /\ DatagramValue(udp[2].payload) = MsgNoData
    /\ last_reading = 0
    /\ pc = "chip_sleep"

(***************************************************************************)
(* Properties of the functions on their own (SpecFn)                       *)
(***************************************************************************)
\* C4: chip_command with response_size 0 writes the command once, issues
\* no read request and no read, and returns empty text.
C4_NoReadWhenSizeZero ==
    (call.fn = "chip_command" /\ call.args.response_size = 0) =>
        /\ Cardinality(AllWrites) = 1
        /\ io[1] = WireWrite(call.args.address, call.args.command)
        /\ Requests = {} /\ Reads = {}
        /\ call.ret = <<>>

\* a fire-and-forget command while the chip would have answered success
C4_Witness ==
    /\ call.fn = "chip_command" /\ call.args.response_size = 0
    /\ call.args.command = CmdLedOn /\ call.args.read_delay = 0
    /\ sensor.code = 1
    /\ Len(io) = 2

C6_StatusMessages ==
    (call.fn = "chip_command" /\ call.args.response_size >= 1 /\ sensor.code # 1) =>
        /\ sensor.code = 2   => call.ret = MsgFailed
        /\ sensor.code = 254 => call.ret = MsgPending
        /\ sensor.code = 255 => call.ret = MsgNoData
        /\ sensor.code \notin {2, 254, 255} => call.ret = <<>>
        /\ Cardinality(AllWrites) = 1
        /\ Cardinality(Requests) = 1
        /\ Cardinality(SettleDelays) = 1
        /\ Cardinality(Reads) = 1
        /\ io = << WireWrite(call.args.address, call.args.command),
                   Delay(call.args.read_delay),
                   WireRequestFrom(call.args.address, call.args.response_size),
                   WireRead(sensor.code) >>

\* an unrecognized status byte (3) gave empty text
C6_Witness ==
    /\ call.fn = "chip_command" /\ call.args.response_size = 2
    /\ sensor.code = 3
    /\ call.ret = <<>>
    /\ Len(io) = 4

\* C7: chip_wake sends 4 "R" commands (16 for dissolved oxygen), each
\* followed by its settle delay, and nothing else: no read request, no read.
C7_PurgeCount ==
    call.fn = "chip_wake" =>
        LET n == IF call.args.chip.type = "dissolved_oxygen" THEN 16 ELSE 4
        IN  /\ Cardinality(ReadWrites) = n
            /\ Cardinality(AllWrites) = n
            /\ Len(io) = 2 * n
            /\ \A i \in AllWrites : io[i].to = call.args.chip.address
            /\ Requests = {} /\ Reads = {}

\* a dissolved oxygen chip was woken with 16 purges
C7_Witness ==
    /\ call.fn = "chip_wake"
    /\ call.args.chip.type = "dissolved_oxygen"
    /\ Cardinality(ReadWrites) = 16

\* C8: get_reading writes "R" once to the chip's address, waits 1000 ms,
\* requests 7 / 32 / 8 / 14 bytes for pH / EC / ORP / dissolved oxygen, and
\* stores what chip_command returns in the chip's data, leaving type, mode
\* and address as they were.
C8_GetReading ==
    call.fn = "get_reading" =>
        LET c == call.args.chip
            n == IF c.type = "ph" THEN 7
                 ELSE IF c.type = "ec" THEN 32
                 ELSE IF c.type = "orp" THEN 8
                 ELSE 14
        IN  /\ Len(io) >= 3
            /\ io[1] = WireWrite(c.address, CmdR)
            /\ io[2] = Delay(1000)
            /\ io[3] = WireRequestFrom(c.address, n)
            /\ Cardinality(AllWrites) = 1
            /\ Cardinality(Requests) = 1
            /\ Cardinality(SettleDelays) = 1
            /\ ph_chip.type = c.type /\ ph_chip.mode = c.mode
            /\ ph_chip.address = c.address
            /\ \E g \in Garbage :
                 ph_chip.data = chip_command(CmdR, c.address, 1000, n, sensor, g).ret
            /\ sensor.code = 1 /\ Len(sensor.payload) < n - 1 =>
                 ph_chip.data = sensor.payload
            /\ sensor.code # 1 => ph_chip.data = StatusMessage(sensor.code)

\* an EC chip holding an earlier reading got a new one over 32 requested
\* bytes
C8_Witness ==
    /\ call.fn = "get_reading"
    /\ call.args.chip.type = "ec"
    /\ call.args.chip.data = <<55, 46, 48, 48>>
    /\ ph_chip.data = <<55, 46, 49, 48>>
    /\ Cardinality(Reads) = 32


(***************************************************************************)
(* Publisher, device id, retained memory                                   *)
(***************************************************************************)
\* C11: one datagram per publish.  Every datagram goes to 159.203.144.95
\* port 8888; the decision step of a cycle whose threshold is exceeded
\* appends exactly one datagram with payload
\* "aqpncs." + device_id + ":" + measured text + "|g" (and one packet event
\* to the log of the cycle); every other step sends nothing, so the number
\* of datagrams is the number of cycles that exceeded the threshold and
\* never more than the number of cycles.
C11_OneDatagram ==
    /\ [](/\ Len(udp) <= cycles
          /\ \A i \in 1..Len(udp) :
               udp[i].ip = <<159, 203, 144, 95>> /\ udp[i].port = 8888)
    /\ [][ LET d       == fabs(atof(ph_chip.data) - last_reading)
               payload == <<97, 113, 112, 110, 99, 115, 46>> \o device_id
                          \o <<58>> \o ph_chip.data \o <<124, 103>>
           IN  IF pc = "decide" /\ 20 * d > Unit
               THEN /\ Len(udp') = Len(udp) + 1
                    /\ SubSeq(udp', 1, Len(udp)) = udp
                    /\ udp'[Len(udp')].payload = payload
                    /\ io' = Append(io, [op |-> "udp", to |-> 8888,
                                         data |-> payload, n |-> 0])
               ELSE udp' = udp ]_vars

\* three cycles, two of which exceeded the threshold: two datagrams, the
\* last one "aqpncs.e0:7.10|g"
C11_Witness ==
    /\ cycles = 3
    /\ pc = "chip_sleep"
    /\ Len(udp) = 2
    /\ udp[2].payload = <<97, 113, 112, 110, 99, 115, 46, 101, 48, 58,
                          55, 46, 49, 48, 124, 103>>


\* a step that asks the cloud for the device id
RequestsDeviceId ==
    \E i \in 1..Len(io') :
        /\ io'[i].op = "Particle.deviceID"
        /\ i > Len(io) \/ io[i] # io'[i]

\* C12: the device id is requested only in setup and only while the
\* retained device_id is empty; once device_id is not empty it never
\* changes, so it is never requested again.
C12_IdCachedForever ==
    [][ /\ RequestsDeviceId => pc = "setup" /\ device_id = <<>>
        /\ device_id # <<>> => device_id' = device_id ]_vars

\* C13: a power-down / power-up transition leaves last_reading and
\* device_id as they were at power-down, they are zero and empty text at
\* the first boot, and setup does not write last_reading.
C13_RetainedUnchanged ==
    /\ (cycles = 1 /\ pc = "setup") => (last_reading = 0 /\ device_id = <<>>)
    /\ [][ /\ pc = "asleep" => last_reading' = last_reading /\ device_id' = device_id
           /\ pc = "setup" => last_reading' = last_reading ]_vars


\* C14: get_reading applied twice to the same chip, the peripheral giving
\* the same answer both times, leaves the same text in the chip's data.
C14_SameTextTwice ==
    call.fn = "get_reading_twice" => ph_chip.data = call.args.first


\* C15: a cycle that has started reaches its power-down (the 15 s delay in
\* atlas-statsd.ino) whatever the sensor answers, from every position of
\* the loop, and after a power-down the next cycle starts (as long as the
\* model explores a further cycle).
C15_RunsToCompletion ==
    /\ \A c \in 1..LiveCycles :
         (cycles = c /\ pc \in {"chip_wake", "get_reading", "decide",
                                "chip_sleep", "idle"})
            ~> (cycles = c /\ pc \in {"asleep", "returned"})
    /\ \A c \in 1..(LiveCycles - 1) :
         (cycles = c /\ pc \in {"asleep", "returned"})
            ~> (cycles = c + 1 /\ pc = "chip_wake")

\* a second cycle, begun after a power-down, was answered "pending" and
\* reached its own power-down
C15_Witness ==
    /\ cycles = 2
    /\ pc \in {"asleep", "returned"}
    /\ sensor.code = 254


\* C16: once the decision step of a cycle is over, the number carried by
\* the chip's data and last_reading differ by 0.05 at most, also when the
\* readings creep away from the published value in steps below 0.05.
C16_BaselineNeverLags ==
    pc \in {"chip_sleep", "idle", "asleep", "returned"}
        => 20 * fabs(atof(ph_chip.data) - last_reading) <= Unit

\* 7.00 was published, the next cycle published nothing, and the third
\* cycle published 7.06: a reading that an unpublished 7.02 or 7.05 before
\* it would not have triggered on its own
C16_Witness ==
    /\ cycles = 3
    /\ pc = "chip_sleep"
    /\ Len(udp) = 2
    /\ atof(DatagramValue(udp[1].payload)) = 7 * Unit
    /\ atof(DatagramValue(udp[2].payload)) = 7 * Unit + (6 * Unit) \div 100
    /\ last_reading = atof(ph_chip.data)


(***************************************************************************)
(* The two variants side by side: setup and one execution of loop of       *)
(* part_000, then the same of atlas-statsd.ino from the same retained      *)
(* memory and with the same answer of the peripheral.                      *)
(***************************************************************************)
\* values last_reading can hold at a boot: the initial zero or a published one
RetainedReadings == {0, 7 * Unit, 14 * Unit}

\* the I2C command writes and read requests, setup's LED commands left out
CoreIO ==
    SelectSeq(io, LAMBDA e : \/ e.op = "requestFrom"
                             \/ e.op = "write" /\ e.data \notin {CmdLedOn, CmdLedOff})

\* what one execution of loop has produced
Outcome == [io |-> CoreIO, udp |-> udp, last_reading |-> last_reading]

InitEq ==
    /\ variant = "release"
    /\ pc = "setup"
    /\ ph_chip = PhChipInit
    /\ last_reading \in RetainedReadings
    /\ particle_id \in DeviceIds
    /\ device_id \in RetainedString(particle_id)
    /\ sensor \in SensorAnswers
    /\ io = <<>>
    /\ udp = <<>>
    /\ cycles = 1
    /\ call = [fn   |-> "loop",
               args |-> [last_reading |-> last_reading, device_id |-> device_id],
               ret  |-> <<>>]

\* keep what part_000 produced and run atlas-statsd.ino from the same start
RunOtherVariant ==
    /\ pc = "idle"
    /\ variant = "release"
    /\ call.fn = "loop"
    /\ call' = [call EXCEPT !.ret = Outcome]
    /\ variant' = "debug"
    /\ pc' = "setup"
    /\ ph_chip' = PhChipInit
    /\ last_reading' = call.args.last_reading
    /\ device_id' = call.args.device_id
    /\ io' = <<>>
    /\ udp' = <<>>
    /\ UNCHANGED << sensor, cycles, particle_id >>

NextEq ==
    \/ Setup
    \/ LoopChipWake
    \/ LoopGetReading
    \/ LoopDecide
    \/ LoopChipSleep
    \/ RunOtherVariant

SpecEq == InitEq /\ [][NextEq]_vars

\* C17: from the same retained state and with the same answer of the
\* peripheral, setup and loop of atlas-statsd.ino produce the same I2C
\* command writes and read requests (LED commands aside), the same datagram
\* or none, and the same last_reading as those of part_000.
C17_VariantsAgree ==
    (call.fn = "loop" /\ variant = "debug" /\ pc = "idle") => Outcome = call.ret

====
